---- MODULE Spec2Model ----
(***************************************************************************)
(* Farely-Backend: the identity state machine (register / verify-otp /     *)
(* resend-otp / complete-profile / login / profile update / delete), the   *)
(* bearer-token gate and the in-memory fixed-window rate limiter.          *)
(*                                                                         *)
(* Time is in milliseconds, as Date.now().                                 *)
(***************************************************************************)
EXTENDS Integers, Sequences, FiniteSets, TLC

VARIABLES
    now,      \* Date.now()
    users,    \* the User collection: _id -> document (committed state)
    nextId,   \* the next fresh ObjectId
    store,    \* rateLimitMiddleware's table: key -> [count, resetTime]
    tokens,   \* bearer tokens held by clients (at most the first per user)
    resp,     \* the response of the last request
    reg,      \* registerUser calls in flight (SpecReg): slot -> call state
    otpLog,   \* history: per OTP key, the requests gated in its current window
    consumed  \* history: _id -> the code its last verification consumed,
              \* kept until /resend-otp issues the identity a new code

vars == <<now, users, nextId, store, tokens, resp, reg, otpLog, consumed>>

-----------------------------------------------------------------------------
(* Bounds of the model *)

\* clock steps taken in Spec
MaxTicks == 2
\* coarse clock steps taken in SpecRL
MaxTicksRL == 2
\* ObjectIds ever allocated to registrations
MaxUsers == 2
\* gated calls counted beyond a policy's max within one window
MaxOver == 1
\* registerUser calls in SpecReg
MaxReq == 3
\* clock steps taken in SpecAuth
MaxTicksAuth == 2
\* store failures in one behaviour of SpecAbort
MaxFail == 1

-----------------------------------------------------------------------------
(* Program constants *)

OtpTtlMs == 600000
OtpWindowMs == 900000
OtpMax == 3
GeneralWindowMs == 900000
GeneralMax == 100
SweepIntervalMs == 300000
JwtExpiresSec == 604800

-----------------------------------------------------------------------------
(* Values *)

NoStr == "none"
NoTime == -1
NoId == 0
NoToken == [userId |-> NoId, exp |-> NoTime, key |-> NoStr]
Empty == [k \in {} |-> NoId]

\* request bodies that pass validateRegister's format check
Emails == {"a@x.co", "A@x.co"}
Phones == {"555"}
\* the six-digit codes Math.random can produce (two of the 900000)
Codes == {"111111", "222222"}
Passwords == {"Abc123"}
Secrets == {"Abc123", "Xyz789"}
Addrs == {"10.0.0.1"}

isEmail(input) == input \in Emails

\* Schema setters of email (lowercase, trim) and phoneNumber (trim); mongoose
\* runs them on saved documents and on query filters alike.
Lowercase(s) == IF s = "A@x.co" THEN "a@x.co" ELSE s

\* bcrypt.hash / bcrypt.compare, as an opaque one-way pair
Hash(p) == <<"bcrypt", p>>
comparePassword(candidate, stored) == Hash(candidate) = stored

CeilDiv(a, b) == (a + b - 1) \div b

\* Authorization headers: none, or a scheme and a token
NoHeader == [scheme |-> "none", token |-> NoToken]
Bearer(tok) == [scheme |-> "Bearer", token |-> tok]
Basic(tok) == [scheme |-> "Basic", token |-> tok]

\* an exchange: the response (op names the route; userId, token and
\* retryAfter are fields of its body, fields are the paths of the user
\* documents in it), with the Authorization header the request carried and
\* req.user as the middleware left it
Resp(op, status, msg) ==
    [op |-> op, status |-> status, msg |-> msg,
     userId |-> NoId, token |-> NoToken, retryAfter |-> NoTime,
     auth |-> NoHeader, reqUser |-> NoId, fields |-> {}]

-----------------------------------------------------------------------------
(* Rate limiter: createRateLimit's middleware on the shared table *)

\* mutant: otpRateLimit without its keyGenerator falls back to req.ip
OtpKey_CallerAddress(emailOrPhone) == <<"ip", CHOOSE ip \in {"10.0.0.1"} : TRUE>>

OtpKey(emailOrPhone) == <<"otp", emailOrPhone>>
IpKey(ip) == <<"ip", ip>>

\* the window test of line 312: a missing or elapsed entry starts a new window
WindowOver(st, key, t) ==
    IF key \in DOMAIN st THEN st[key].resetTime < t ELSE TRUE

\* mutant: every counted call moves the end of the window
Counted_Sliding(st, key, windowMs, t) ==
    IF WindowOver(st, key, t)
    THEN [k \in DOMAIN st \cup {key} |->
            IF k = key THEN [count |-> 1, resetTime |-> t + windowMs] ELSE st[k]]
    ELSE [st EXCEPT ![key] = [count |-> st[key].count + 1,
                              resetTime |-> t + windowMs]]

\* lines 312-319: the table after the call is counted
Counted(st, key, windowMs, t) ==
    IF WindowOver(st, key, t)
    THEN [k \in DOMAIN st \cup {key} |->
            IF k = key THEN [count |-> 1, resetTime |-> t + windowMs] ELSE st[k]]
    ELSE [st EXCEPT ![key].count = @ + 1]

\* mutant: the limit test off by one
OverLimit_AtMax(st, key, max) == st[key].count >= max

\* line 321, on the table after counting
OverLimit(st, key, max) == st[key].count > max

\* line 325
RetryAfter(st, key, t) == CeilDiv(st[key].resetTime - t, 1000)

\* the 429 response of lines 322-327
TooMany(op, st, key, t, msg) ==
    [Resp(op, 429, msg) EXCEPT !.retryAfter = RetryAfter(st, key, t)]

OtpLimitMsg == "Too many OTP requests. Please wait before requesting another."
GeneralLimitMsg == "Too many requests from this IP, please try again later."

\* the counter of a running window is capped at max + MaxOver
CanCount(st, key, max, t) ==
    IF WindowOver(st, key, t) THEN TRUE ELSE st[key].count < max + MaxOver

\* history: requests of each route gated in the key's current window
Logged(log, st, key, route, t) ==
    LET fresh == WindowOver(st, key, t)
        old == IF fresh THEN [register |-> 0, resend |-> 0]
               ELSE IF key \in DOMAIN log THEN log[key]
               ELSE [register |-> 0, resend |-> 0]
        new == [old EXCEPT ![route] = @ + 1]
    IN [k \in DOMAIN log \cup {key} |-> IF k = key THEN new ELSE log[k]]

\* mutant: the sweep also removes an entry whose window ends at t
Swept_AtReset(st, t) ==
    LET keep == {k \in DOMAIN st : ~(st[k].resetTime <= t)}
    IN [k \in keep |-> st[k]]

\* lines 293-300: the periodic sweep
Swept(st, t) ==
    LET keep == {k \in DOMAIN st : ~(st[k].resetTime < t)}
    IN [k \in keep |-> st[k]]

Sweep ==
    /\ store' = Swept(store, now)
    /\ store' # store
    /\ UNCHANGED <<now, users, nextId, tokens, resp, reg, otpLog, consumed>>

\* The clock of Spec moves in steps of the OTP lifetime: a code issued at one
\* instant is met again exactly at its expiry and one step after it, and a
\* limiter window opened at one instant has elapsed two steps later.
Tick ==
    /\ (now + OtpTtlMs) \div OtpTtlMs <= MaxTicks
    /\ now' = now + OtpTtlMs
    /\ UNCHANGED <<users, nextId, store, tokens, resp, reg, otpLog, consumed>>

\* The clock of SpecRL moves by one window length, or by a single
\* millisecond past a multiple of it; max bounds the coarse steps.
TickMs(step, max) ==
    \E d \in {1, step} :
        /\ (now + d) \div step <= max
        /\ (now + d) % step <= 1
        /\ now' = now + d
        /\ UNCHANGED <<users, nextId, store, tokens, resp, reg, otpLog, consumed>>

-----------------------------------------------------------------------------
(* SpecRL: the router's limiter chain alone.  Every route passes             *)
(* generalRateLimit (keyed by caller address); /register and /resend-otp    *)
(* then pass otpRateLimit (keyed by the raw emailOrPhone of the body).      *)

\* the routes of the router by the middleware in front of them: "login" is
\* any of /verify-otp, /complete-profile and /login (generalRateLimit only),
\* "profile" any of the routes declared after router.use(authMiddleware)
Routes == {"register", "resend", "login", "profile"}

\* the routes whose controller stores a fresh code (generateOTP)
OtpRoutes == {"register", "resend"}

\* mutant: only /resend-otp carries otpRateLimit
HasOtpLimit_ResendOnly(route) == route = "resend"

\* the routes declared with otpRateLimit (UserModel.ts lines 238 and 240)
HasOtpLimit(route) == route \in {"register", "resend"}

\* one request through the chain: generalRateLimit, then otpRateLimit where
\* the route has it.  otpLog records each code-issuing request that
\* generalRateLimit let through.
Gated(route, ip, emailOrPhone) ==
    LET gkey == IpKey(ip)
        okey == OtpKey(emailOrPhone)
        st1 == Counted(store, gkey, GeneralWindowMs, now)
        st2 == Counted(st1, okey, OtpWindowMs, now)
    IN /\ CanCount(store, gkey, GeneralMax, now)
       /\ IF OverLimit(st1, gkey, GeneralMax)
          THEN /\ store' = st1
               /\ resp' = TooMany(route, st1, gkey, now, GeneralLimitMsg)
               /\ otpLog' = otpLog
          ELSE /\ otpLog' = IF route \in OtpRoutes
                            THEN Logged(otpLog, st1, okey, route, now)
                            ELSE otpLog
               /\ IF HasOtpLimit(route)
                  THEN /\ CanCount(st1, okey, OtpMax, now)
                       /\ store' = st2
                       /\ resp' = IF OverLimit(st2, okey, OtpMax)
                                  THEN TooMany(route, st2, okey, now, OtpLimitMsg)
                                  ELSE Resp(route, 0, "next")
                  ELSE /\ store' = st1
                       /\ resp' = Resp(route, 0, "next")
       /\ UNCHANGED <<now, users, nextId, tokens, reg, consumed>>

NoResp == Resp("none", 0, "none")

\* the emailOrPhone values of the requests of SpecRL
RawIdsRL == {"a@x.co"}

InitRL ==
    /\ now = 0
    /\ users = Empty
    /\ nextId = 1
    /\ store = Empty
    /\ tokens = {}
    /\ resp = NoResp
    /\ reg = Empty
    /\ otpLog = Empty
    /\ consumed = Empty

NextRL ==
    \/ \E route \in Routes, ip \in Addrs, e \in RawIdsRL : Gated(route, ip, e)
    \/ Sweep
    \/ TickMs(OtpWindowMs, MaxTicksRL)

SpecRL == InitRL /\ [][NextRL]_vars

-----------------------------------------------------------------------------
(* The User model: schema defaults, hooks and methods *)

\* the emailOrPhone values of the requests of Spec
RawIds == {"a@x.co"}
\* firstName .. address of a complete-profile or update body, as one value
Names == {"Ann"}

AdminId == 9
Ids == 1..MaxUsers

\* the paths of the schema held in the model, and those declared select: false
Paths ==
    {"email", "phoneNumber", "password", "firstName", "isVerified",
     "isPhoneVerified", "isEmailVerified", "otpCode", "otpExpires", "role",
     "termsAccepted", "termsAcceptedAt"}
SelectFalse == {"password", "otpCode", "otpExpires"}

\* mutant: a query loads every path
Selected_AllPaths(plus, minus) == (Paths \cup plus) \ minus

\* the paths a query loads: those not select: false, the ones added with
\* select("+path"), without the ones taken out with select("-path")
Selected(plus, minus) == ((Paths \ SelectFalse) \cup plus) \ minus

\* delete userResponse.password / .otpCode / .otpExpires
Sanitized(loaded) == loaded \ {"password", "otpCode", "otpExpires"}

\* new User(userData) of registerUser lines 93-105 with the schema defaults
NewUser(emailOrPhone, password) ==
    [email |-> IF isEmail(emailOrPhone) THEN Lowercase(emailOrPhone) ELSE NoStr,
     phoneNumber |-> IF isEmail(emailOrPhone) THEN NoStr ELSE emailOrPhone,
     password |-> Hash(password),
     firstName |-> NoStr,
     isVerified |-> FALSE,
     isPhoneVerified |-> FALSE,
     isEmailVerified |-> FALSE,
     otpCode |-> NoStr,
     otpExpires |-> NoTime,
     role |-> "user",
     termsAccepted |-> FALSE,
     termsAcceptedAt |-> NoTime]

\* an administrator, put into the collection out of band (no route sets a role)
AdminDoc ==
    [NewUser("900", "Adm1n0") EXCEPT
        !.firstName = "Root", !.isVerified = TRUE, !.isPhoneVerified = TRUE,
        !.role = "admin", !.termsAccepted = TRUE, !.termsAcceptedAt = 0]

\* mutant: the expiry does not follow the clock
generateOTP_FixedExpiry(u, otp, t) ==
    [u EXCEPT !.otpCode = otp, !.otpExpires = OtpTtlMs]

\* mutant: a stored code is kept, a new one is set only when none is stored
generateOTP_KeepsStored(u, otp, t) ==
    IF u.otpCode # NoStr THEN u
    ELSE [u EXCEPT !.otpCode = otp, !.otpExpires = t + OtpTtlMs]

\* generateOTP: otp is the value Math.random produced
generateOTP(u, otp, t) == [u EXCEPT !.otpCode = otp, !.otpExpires = t + OtpTtlMs]

\* pre('save') hook: termsAcceptedAt is set when termsAccepted was modified
\* to true and no date is stored yet (prev is the document as loaded)
PreSave(prev, u, t) ==
    IF u.termsAccepted # prev.termsAccepted /\ u.termsAccepted
          /\ u.termsAcceptedAt = NoTime
    THEN [u EXCEPT !.termsAcceptedAt = t]
    ELSE u

\* User.findOne({email}) / User.findOne({phoneNumber}): the matching _ids
FindByContact(us, emailOrPhone) ==
    IF isEmail(emailOrPhone)
    THEN {i \in DOMAIN us : us[i].email = Lowercase(emailOrPhone)}
    ELSE {i \in DOMAIN us : us[i].phoneNumber = emailOrPhone}

Found(us, emailOrPhone) == CHOOSE i \in FindByContact(us, emailOrPhone) : TRUE

\* the key a document for emailOrPhone holds in its unique index
IndexKey(emailOrPhone) ==
    IF isEmail(emailOrPhone) THEN <<"email", Lowercase(emailOrPhone)>>
    ELSE <<"phoneNumber", emailOrPhone>>

\* slots whose transaction holds an uncommitted insert
Pending(rg) == {q \in DOMAIN rg : rg[q].pc = "commit"}

Insert(us, id, u) == [i \in DOMAIN us \cup {id} |-> IF i = id THEN u ELSE us[i]]
\* mutant: a deleted document is kept
Remove_Keeps(us, id) == us

Remove(us, id) == [i \in DOMAIN us \ {id} |-> us[i]]

\* the signing key, process.env.JWT_SECRET
JwtSecret == "JWT_SECRET"

\* generateToken: jwt.sign({userId}, secret, {expiresIn}); exp is in seconds.
\* A token is its payload and the key its signature was made with.
generateToken(userId, t) ==
    [userId |-> userId, exp |-> (t \div 1000) + JwtExpiresSec, key |-> JwtSecret]

\* a client keeps the first token it was given for an identity
Kept(toks, tok) ==
    IF \E k \in toks : k.userId = tok.userId THEN toks ELSE toks \cup {tok}

-----------------------------------------------------------------------------
(* The controllers, one action per route.  A request of Spec has passed     *)
(* generalRateLimit (SpecRL has that limiter); /register and /resend-otp    *)
(* pass otpRateLimit here.                                                  *)

\* otpRateLimit in front of a controller: the table, the history and whether
\* the request goes on
OtpGateStore(emailOrPhone) == Counted(store, OtpKey(emailOrPhone), OtpWindowMs, now)
\* mutant: the limiter counts the request and lets it through
OtpGatePass_Open(emailOrPhone) == TRUE

OtpGatePass(emailOrPhone) ==
    ~OverLimit(OtpGateStore(emailOrPhone), OtpKey(emailOrPhone), OtpMax)

OtpGate(route, emailOrPhone) ==
    /\ CanCount(store, OtpKey(emailOrPhone), OtpMax, now)
    /\ store' = OtpGateStore(emailOrPhone)
    /\ otpLog' = otpLog

\* the template literals of lines 120 and 331: the message names the
\* emailOrPhone of the request as it was sent
Registered(emailOrPhone) ==
    CASE emailOrPhone = "a@x.co" -> "Registration initiated. OTP sent to a@x.co"
      [] emailOrPhone = "A@x.co" -> "Registration initiated. OTP sent to A@x.co"
      [] emailOrPhone = "555" -> "Registration initiated. OTP sent to 555"

Resent(emailOrPhone) ==
    CASE emailOrPhone = "a@x.co" -> "New OTP sent to a@x.co"
      [] emailOrPhone = "A@x.co" -> "New OTP sent to A@x.co"
      [] emailOrPhone = "555" -> "New OTP sent to 555"

\* the message thrown at lines 87-89
AlreadyExists(emailOrPhone) ==
    IF isEmail(emailOrPhone) THEN "User with this email already exists"
    ELSE "User with this phone number already exists"

\* registerUser behind otpRateLimit and validateRegister; otp is the code
\* generateOTP draws.  The transaction (lines 80-127) runs in one step here;
\* SpecReg takes it apart.
registerUser(emailOrPhone, password, confirmPassword, otp) ==
    /\ OtpGate("register", emailOrPhone)
    /\ UNCHANGED <<now, tokens, reg, consumed>>
    /\ IF ~OtpGatePass(emailOrPhone)
       THEN /\ resp' = TooMany("register", store', OtpKey(emailOrPhone), now,
                               OtpLimitMsg)
            /\ UNCHANGED <<users, nextId>>
       ELSE IF password # confirmPassword
       THEN /\ resp' = Resp("register", 400, "Validation failed")
            /\ UNCHANGED <<users, nextId>>
       ELSE IF FindByContact(users, emailOrPhone) # {}
       THEN /\ resp' = Resp("register", 400, AlreadyExists(emailOrPhone))
            /\ UNCHANGED <<users, nextId>>
       ELSE /\ nextId <= MaxUsers
            /\ users' = Insert(users, nextId,
                          generateOTP(NewUser(emailOrPhone, password), otp, now))
            /\ nextId' = nextId + 1
            /\ resp' = [Resp("register", 201, Registered(emailOrPhone))
                          EXCEPT !.userId = nextId]

\* mutant: a code is refused from its expiry instant on
OtpExpired_AtExpiry(u, t) == u.otpExpires = NoTime \/ u.otpExpires <= t

\* line 180: !user.otpExpires || user.otpExpires < new Date()
OtpExpired(u, t) == u.otpExpires = NoTime \/ u.otpExpires < t

\* mutant: the expiry is tested before the code
VerifyCheck_ExpiryFirst(us, emailOrPhone, otpCode, t) ==
    IF FindByContact(us, emailOrPhone) = {} THEN "User not found"
    ELSE LET u == us[Found(us, emailOrPhone)]
         IN IF OtpExpired(u, t) THEN "OTP has expired"
            ELSE IF u.otpCode = NoStr \/ u.otpCode # otpCode THEN "Invalid OTP code"
            ELSE "OTP verified successfully"

\* the outcome of verifyOTP's checks (lines 163-186) on the document read
VerifyCheck(us, emailOrPhone, otpCode, t) ==
    IF FindByContact(us, emailOrPhone) = {} THEN "User not found"
    ELSE LET u == us[Found(us, emailOrPhone)]
         IN IF u.otpCode = NoStr \/ u.otpCode # otpCode THEN "Invalid OTP code"
            ELSE IF OtpExpired(u, t) THEN "OTP has expired"
            ELSE "OTP verified successfully"

\* mutant: a verification marks both channels
Verified_BothChannels(u, emailOrPhone) ==
    [u EXCEPT !.isEmailVerified = TRUE, !.isPhoneVerified = TRUE,
              !.otpCode = NoStr, !.otpExpires = NoTime]

\* lines 188-196
Verified(u, emailOrPhone) ==
    [u EXCEPT !.isEmailVerified = IF isEmail(emailOrPhone) THEN TRUE ELSE @,
              !.isPhoneVerified = IF isEmail(emailOrPhone) THEN @ ELSE TRUE,
              !.otpCode = NoStr, !.otpExpires = NoTime]

\* mutant: a refused attempt clears the stored code
Refused_ClearsCode(us, emailOrPhone) ==
    [us EXCEPT ![Found(us, emailOrPhone)] =
                  [@ EXCEPT !.otpCode = NoStr, !.otpExpires = NoTime]]

\* the collection after a 400 of lines 172-186: both returns come before
\* the first assignment to the document and before save()
Refused(us, emailOrPhone) == us

verifyOTP(emailOrPhone, otpCode) ==
    LET out == VerifyCheck(users, emailOrPhone, otpCode, now)
    IN /\ UNCHANGED <<now, nextId, store, tokens, reg, otpLog>>
       /\ IF out = "User not found"
          THEN /\ resp' = Resp("verify", 404, out)
               /\ UNCHANGED <<users, consumed>>
          ELSE IF out # "OTP verified successfully"
          THEN /\ resp' = Resp("verify", 400, out)
               /\ users' = Refused(users, emailOrPhone)
               /\ consumed' = consumed
          ELSE LET id == Found(users, emailOrPhone)
               IN /\ users' = [users EXCEPT
                                 ![id] = PreSave(@, Verified(@, emailOrPhone), now)]
                  /\ consumed' = Insert(consumed, id, otpCode)
                  /\ resp' = [Resp("verify", 200, out) EXCEPT !.userId = id]

resendOTP(emailOrPhone, otp) ==
    /\ OtpGate("resend", emailOrPhone)
    /\ UNCHANGED <<now, nextId, tokens, reg>>
    /\ IF ~OtpGatePass(emailOrPhone)
       THEN /\ resp' = TooMany("resend", store', OtpKey(emailOrPhone), now,
                               OtpLimitMsg)
            /\ UNCHANGED <<users, consumed>>
       ELSE IF FindByContact(users, emailOrPhone) = {}
       THEN /\ resp' = Resp("resend", 404, "User not found")
            /\ UNCHANGED <<users, consumed>>
       ELSE LET id == Found(users, emailOrPhone)
            IN /\ users' = [users EXCEPT
                              ![id] = PreSave(@, generateOTP(@, otp, now), now)]
               /\ consumed' = Remove(consumed, id)
               /\ resp' = Resp("resend", 200, Resent(emailOrPhone))

\* termsAccepted of a complete-profile body, as JSON text: the booleans,
\* the string 'false', or no such member
TermsValues == {"true", "false", "'false'", "undefined"}

\* validator.js isBoolean on the value's string form (validateCompleteProfile
\* line 203): 'true', 'false', '1' and '0' pass, quoted or not
isBoolean(v) == v \in {"true", "false", "1", "0", "'true'", "'false'", "'1'", "'0'"}

\* JavaScript truthiness, the test of !value
Truthy(v) == v \notin {"false", "undefined", "null", "0", "''"}

\* Mongoose's cast of a value assigned to a Boolean path
CastBoolean(v) == v \in {"true", "1", "'true'", "'1'"}

\* body("termsAccepted") of validateCompleteProfile, lines 202-210
TermsValid(v) == isBoolean(v) /\ Truthy(v)

\* lines 260-268
Completed(u, name, termsAccepted) ==
    [u EXCEPT !.firstName = name, !.termsAccepted = CastBoolean(termsAccepted),
              !.isVerified = TRUE]

\* completeProfile behind validateCompleteProfile
completeProfile(userId, name, termsAccepted) ==
    /\ UNCHANGED <<now, nextId, store, reg, otpLog, consumed>>
    /\ IF ~TermsValid(termsAccepted)
       THEN /\ resp' = Resp("complete", 400, "Validation failed")
            /\ UNCHANGED <<users, tokens>>
       ELSE IF ~Truthy(termsAccepted)
       THEN /\ resp' = Resp("complete", 400, "Terms and conditions must be accepted")
            /\ UNCHANGED <<users, tokens>>
       ELSE IF userId \notin DOMAIN users
       THEN /\ resp' = Resp("complete", 404, "User not found")
            /\ UNCHANGED <<users, tokens>>
       ELSE IF ~users[userId].isEmailVerified /\ ~users[userId].isPhoneVerified
       THEN /\ resp' = Resp("complete", 400,
                            "Please verify your email or phone number first")
            /\ UNCHANGED <<users, tokens>>
       ELSE /\ users' = [users EXCEPT ![userId] = PreSave(@, Completed(@, name, termsAccepted), now)]
            /\ tokens' = Kept(tokens, generateToken(userId, now))
            /\ resp' = [Resp("complete", 200, "Profile completed successfully")
                          EXCEPT !.userId = userId,
                                 !.token = generateToken(userId, now),
                                 !.fields = Sanitized(Selected({}, {}))]

\* mutant: login without the isVerified test
LoginCheck_NoActiveTest(us, emailOrPhone, password) ==
    IF FindByContact(us, emailOrPhone) = {} THEN "Invalid credentials"
    ELSE IF ~comparePassword(password, us[Found(us, emailOrPhone)].password)
    THEN "Invalid credentials"
    ELSE "Login successful"

\* the outcome of loginUser's checks (lines 358-384)
LoginCheck(us, emailOrPhone, password) ==
    IF FindByContact(us, emailOrPhone) = {} THEN "Invalid credentials"
    ELSE LET u == us[Found(us, emailOrPhone)]
         IN IF ~u.isVerified THEN "Please complete your registration first"
            ELSE IF ~comparePassword(password, u.password) THEN "Invalid credentials"
            ELSE "Login successful"

loginUser(emailOrPhone, password) ==
    LET out == LoginCheck(users, emailOrPhone, password)
    IN /\ UNCHANGED <<now, users, nextId, store, reg, otpLog, consumed>>
       /\ IF out # "Login successful"
          THEN /\ resp' = Resp("login", 401, out)
               /\ tokens' = tokens
          ELSE LET id == Found(users, emailOrPhone)
               IN /\ tokens' = Kept(tokens, generateToken(id, now))
                  /\ resp' = [Resp("login", 200, out) EXCEPT
                                 !.userId = id, !.token = generateToken(id, now),
                                 !.fields = Sanitized(Selected({"password"}, {}))]

\* mutant: verification that ignores exp
JwtVerify_IgnoreExpiration(tok, t) ==
    IF tok.key # "JWT_SECRET" THEN "JsonWebTokenError" ELSE "none"

\* jwt.verify(token, secret): the class of the error it throws, "none" when
\* it returns the payload.  A token that is no JWT or whose signature was not
\* made with the secret raises JsonWebTokenError; a well-signed one raises
\* TokenExpiredError once the clock, in seconds, has reached exp.
JwtVerify(tok, t) ==
    IF tok.key # JwtSecret THEN "JsonWebTokenError"
    ELSE IF (t \div 1000) >= tok.exp THEN "TokenExpiredError"
    ELSE "none"

\* error instanceof cls: jsonwebtoken's TokenExpiredError extends
\* JsonWebTokenError
InstanceOf(err, cls) ==
    IF err = cls THEN TRUE
    ELSE err = "TokenExpiredError" /\ cls = "JsonWebTokenError"

\* decoded[name]: a claim the payload does not carry reads as undefined, and
\* findById(undefined) matches no document
Claim(tok, name) == IF name \in DOMAIN tok THEN tok[name] ELSE NoId

\* the catch block of authMiddleware (unnamed/part_000 lines 51-72)
AuthCaught(err) ==
    IF InstanceOf(err, "JsonWebTokenError") THEN "Access denied. Invalid token."
    ELSE IF InstanceOf(err, "TokenExpiredError") THEN "Access denied. Token expired."
    ELSE "Internal server error during authentication."

\* mutant: the gate does not look the identity up
AuthCheck_NoLookup(us, header, t) ==
    IF header.scheme # "Bearer" THEN "Access denied. No valid token provided."
    ELSE IF JwtVerify(header.token, t) # "none"
    THEN AuthCaught(JwtVerify(header.token, t))
    ELSE "next"

\* authMiddleware (unnamed/part_000 lines 11-50): the message of its
\* rejection, "next" when it calls next()
AuthCheck(us, header, t) ==
    IF header.scheme # "Bearer" THEN "Access denied. No valid token provided."
    ELSE IF JwtVerify(header.token, t) # "none"
    THEN AuthCaught(JwtVerify(header.token, t))
    ELSE IF Claim(header.token, "userId") \notin DOMAIN us
    THEN "Access denied. User not found."
    ELSE "next"

AuthStatus(out) ==
    IF out = "Internal server error during authentication." THEN 500 ELSE 401

\* mutant: req.user is set from the payload before the identity is looked up
Attached_BeforeLookup(us, header, t) ==
    IF header.scheme = "Bearer" /\ JwtVerify(header.token, t) = "none"
    THEN Claim(header.token, "userId")
    ELSE NoId

\* req.user as authMiddleware leaves it: the document found (line 49), or
\* nothing
Attached(us, header, t) ==
    IF AuthCheck(us, header, t) = "next" THEN Claim(header.token, "userId")
    ELSE NoId

\* the gate's own response
Rejected(op, header, out, reqUser) ==
    [Resp(op, AuthStatus(out), out) EXCEPT !.auth = header, !.reqUser = reqUser]

\* req.user?.role
RoleOf(us, reqUser) == IF reqUser \in DOMAIN us THEN us[reqUser].role ELSE NoStr

\* authenticateToken, the gate of routes/UserRoutes.ts
\* (middleware/authMiddleware.ts lines 31-72); it reads decoded.id
AuthenticateCheck(us, header, t) ==
    IF header.scheme # "Bearer" THEN "Access denied. No token provided."
    ELSE IF JwtVerify(header.token, t) # "none"
    THEN IF InstanceOf(JwtVerify(header.token, t), "JsonWebTokenError")
         THEN "Invalid token."
         ELSE IF InstanceOf(JwtVerify(header.token, t), "TokenExpiredError")
         THEN "Token expired."
         ELSE "Server error during authentication."
    ELSE IF Claim(header.token, "id") \notin DOMAIN us
    THEN "Invalid token. User not found."
    ELSE "next"

\* a handler's response to the request the gate let through
Handled(op, header, status, msg, reqUser) ==
    [Resp(op, status, msg) EXCEPT !.auth = header, !.reqUser = reqUser]

\* GET /profile behind authMiddleware (lines 409-434)
getUserProfile(header) ==
    LET out == AuthCheck(users, header, now)
        me == Attached(users, header, now)
    IN /\ UNCHANGED <<now, users, nextId, store, tokens, reg, otpLog, consumed>>
       /\ resp' = IF out # "next" THEN Rejected("profile", header, out, me)
                  ELSE IF me = NoId
                  THEN Handled("profile", header, 401, "User not authenticated", me)
                  ELSE [Handled("profile", header, 200, "success", me)
                          EXCEPT !.userId = me, !.fields = Selected({}, {})]

\* GET /profile of routes/UserRoutes.ts line 35, behind authenticateToken
getUserProfileSimple(header) ==
    LET out == AuthenticateCheck(users, header, now)
        me == IF out = "next" THEN Claim(header.token, "id") ELSE NoId
    IN /\ UNCHANGED <<now, users, nextId, store, tokens, reg, otpLog, consumed>>
       /\ resp' = IF out # "next" THEN [Resp("profile-simple", 401, out) EXCEPT !.auth = header]
                  ELSE [Handled("profile-simple", header, 200, "success", me)
                          EXCEPT !.userId = me,
                                 !.fields = Selected({}, {"password"})]

\* GET / behind authMiddleware (lines 486-530)
getAllUsers(header) ==
    LET out == AuthCheck(users, header, now)
        me == Attached(users, header, now)
    IN /\ UNCHANGED <<now, users, nextId, store, tokens, reg, otpLog, consumed>>
       /\ resp' = IF out # "next" THEN Rejected("list", header, out, me)
                  ELSE IF RoleOf(users, me) # "admin"
                  THEN Handled("list", header, 403,
                               "Access denied. Admin privileges required.", me)
                  ELSE [Handled("list", header, 200, "success", me)
                          EXCEPT !.fields = Selected({}, {"password"})]

\* update bodies of PUT /profile (any JSON object is accepted)
FarFuture == 7200000
UpdateBodies ==
    { [firstName |-> "Bob"],
      [isEmailVerified |-> FALSE, isPhoneVerified |-> FALSE],
      [otpCode |-> "111111", otpExpires |-> FarFuture],
      [role |-> "admin", isVerified |-> FALSE, password |-> "Hack3d"] }

\* lines 454-458
Stripped(body) ==
    [f \in DOMAIN body \ {"password", "_id", "role", "isVerified"} |-> body[f]]

\* the update Mongoose sends for updateData: the paths of its $set operator
\* and its top-level paths that are no operator, as one $set
SetOf(updateData) ==
    LET top == [f \in DOMAIN updateData \ {"$set"} |-> updateData[f]]
    IN IF "$set" \in DOMAIN updateData THEN top @@ updateData["$set"] ELSE top

\* the schema's cast of a path's value (email: lowercase, UserModel line 38)
Cast(f, v) == IF f = "email" THEN Lowercase(v) ELSE v

\* findByIdAndUpdate(userId, updateData): the $set is applied to the
\* document, no save hook runs
Updated(u, updateData) ==
    [f \in DOMAIN u |->
        IF f \in DOMAIN SetOf(updateData) THEN Cast(f, SetOf(updateData)[f])
        ELSE u[f]]

\* the index keys document u holds (UserModel lines 147-161)
KeysOf(u) ==
    {<<f, u[f]>> : f \in {g \in {"email", "phoneNumber"} : u[g] # NoStr}}

\* mutant: an update is not checked against the unique indexes
DuplicateKey_None(us, id, u) == FALSE

\* E11000: document u, stored under id, would hold an index key that
\* another document holds
DuplicateKey(us, id, u) ==
    \E j \in DOMAIN us \ {id} : KeysOf(us[j]) \cap KeysOf(u) # {}

\* the update would write an index key that an open transaction has
\* inserted: the write waits for the transaction to end
Locked(rg, u) ==
    \E q \in Pending(rg) : IndexKey(rg[q].emailOrPhone) \in KeysOf(u)

updateUserProfile(header, body) ==
    LET out == AuthCheck(users, header, now)
        me == Attached(users, header, now)
    IN /\ UNCHANGED <<now, nextId, store, tokens, reg, otpLog, consumed>>
       /\ IF out # "next"
          THEN /\ resp' = Rejected("update", header, out, me)
               /\ users' = users
          ELSE IF me = NoId
          THEN /\ resp' = Handled("update", header, 401, "User not authenticated", me)
               /\ users' = users
          ELSE IF me \notin DOMAIN users
          THEN /\ resp' = Handled("update", header, 404, "User not found", me)
               /\ users' = users
          ELSE IF DuplicateKey(users, me, Updated(users[me], Stripped(body)))
          THEN /\ resp' = Handled("update", header, 500,
                                  "E11000 duplicate key error", me)
               /\ users' = users
          ELSE /\ ~Locked(reg, Updated(users[me], Stripped(body)))
               /\ users' = [users EXCEPT ![me] = Updated(@, Stripped(body))]
               /\ resp' = [Handled("update", header, 200, "Profile updated successfully", me)
                             EXCEPT !.userId = me, !.fields = Selected({}, {})]

\* a :userId path parameter that is no ObjectId (such as "abc")
BadId == -2

\* the cast of an _id in a query filter: it throws CastError on BadId
isObjectId(id) == id # BadId

deleteUser(header, userId) ==
    LET out == AuthCheck(users, header, now)
        me == Attached(users, header, now)
    IN /\ UNCHANGED <<now, nextId, store, tokens, reg, otpLog>>
       /\ IF out # "next"
          THEN /\ resp' = Rejected("delete", header, out, me)
               /\ UNCHANGED <<users, consumed>>
          ELSE IF RoleOf(users, me) # "admin"
          THEN /\ resp' = Handled("delete", header, 403,
                                  "Access denied. Admin privileges required.", me)
               /\ UNCHANGED <<users, consumed>>
          ELSE IF ~isObjectId(userId)
          THEN /\ resp' = Handled("delete", header, 500,
                                  "Cast to ObjectId failed", me)
               /\ UNCHANGED <<users, consumed>>
          ELSE IF userId \notin DOMAIN users
          THEN /\ resp' = Handled("delete", header, 404, "User not found", me)
               /\ UNCHANGED <<users, consumed>>
          ELSE /\ users' = Remove(users, userId)
               /\ consumed' = Remove(consumed, userId)
               /\ resp' = Handled("delete", header, 200, "User deleted successfully", me)

\* the tokens of the clients that send profile updates
UserTokens == {tok \in tokens : tok.userId # AdminId}

Init ==
    /\ now = 0
    /\ users = Insert(Empty, AdminId, AdminDoc)
    /\ nextId = 1
    /\ store = Empty
    /\ tokens = {generateToken(AdminId, 0)}
    /\ resp = NoResp
    /\ reg = Empty
    /\ otpLog = Empty
    /\ consumed = Empty

Next ==
    \/ \E e \in RawIds, p \in Passwords, c \in Secrets, otp \in Codes :
          registerUser(e, p, c, otp)
    \/ \E e \in RawIds, otp \in Codes : verifyOTP(e, otp)
    \/ \E e \in RawIds, otp \in Codes : resendOTP(e, otp)
    \/ \E id \in Ids, n \in Names, t \in {"true", "false"} : completeProfile(id, n, t)
    \/ \E e \in RawIds, p \in Secrets : loginUser(e, p)
    \/ \E tok \in UserTokens, b \in UpdateBodies :
          updateUserProfile(Bearer(tok), b)
    \/ \E tok \in tokens, id \in Ids : deleteUser(Bearer(tok), id)
    \/ Sweep
    \/ Tick

Spec == Init /\ [][Next]_vars

-----------------------------------------------------------------------------
(* SpecAuth: the routes behind a token gate, with any Authorization header, *)
(* over the lifetime of a token.  Identities and tokens come about through  *)
(* the public routes.                                                       *)

\* a token's lifetime in milliseconds
JwtMs == JwtExpiresSec * 1000

\* tokens a caller makes up: a payload naming the administrator, signed with
\* a key that is not the secret, and a string that is no JWT
Forged ==
    { [userId |-> AdminId, exp |-> 3 * JwtExpiresSec, key |-> "guess"],
      [userId |-> NoId, exp |-> NoTime, key |-> NoStr] }

\* the Authorization headers of the requests of SpecAuth
Headers(toks) ==
    {NoHeader, Basic(generateToken(AdminId, 0))}
        \cup {Bearer(tok) : tok \in toks \cup Forged}

\* what the public routes are sent in SpecAuth: one code, one update body
CodesAuth == {"111111"}
BodiesAuth == {[firstName |-> "Bob"]}

\* The clock of SpecAuth steps to the last millisecond before a multiple of
\* the token lifetime, then onto the multiple.
TickAuth ==
    /\ 2 * (now \div JwtMs) + (IF now % JwtMs = 0 THEN 0 ELSE 1) < MaxTicksAuth
    /\ now' = IF now % JwtMs = 0 THEN now + JwtMs - 1 ELSE now + 1
    /\ UNCHANGED <<users, nextId, store, tokens, resp, reg, otpLog, consumed>>

NextAuth ==
    \/ \E e \in RawIds, p \in Passwords, c \in Passwords, otp \in CodesAuth :
          registerUser(e, p, c, otp)
    \/ \E e \in RawIds, otp \in CodesAuth : verifyOTP(e, otp)
    \/ \E id \in Ids, n \in Names : completeProfile(id, n, "true")
    \/ \E e \in RawIds, p \in Passwords : loginUser(e, p)
    \/ \E h \in Headers(tokens) : getUserProfile(h)
    \/ \E h \in Headers(tokens) : getUserProfileSimple(h)
    \/ \E h \in Headers(tokens), b \in BodiesAuth : updateUserProfile(h, b)
    \/ \E h \in Headers(tokens) : getAllUsers(h)
    \/ \E h \in Headers(tokens), id \in Ids : deleteUser(h, id)
    \/ TickAuth

SpecAuth == Init /\ [][NextAuth]_vars

-----------------------------------------------------------------------------
(* SpecProfile: registration up to complete-profile with any termsAccepted  *)
(* value, and PUT /profile with any body, over time.                        *)

\* bodies of PUT /profile: a name, the stripped paths, the same paths inside
\* a $set operator, and the acceptance date
BodiesProfile ==
    { [firstName |-> "Bob"],
      [role |-> "admin", isVerified |-> FALSE],
      ("$set" :> [role |-> "admin", isVerified |-> FALSE]),
      [termsAcceptedAt |-> FarFuture] }

NextProfile ==
    \/ \E e \in RawIds, p \in Passwords, otp \in CodesAuth :
          registerUser(e, p, p, otp)
    \/ \E e \in RawIds, otp \in CodesAuth : verifyOTP(e, otp)
    \/ \E id \in Ids, n \in Names, t \in TermsValues : completeProfile(id, n, t)
    \/ \E tok \in UserTokens, b \in BodiesProfile :
          updateUserProfile(Bearer(tok), b)
    \/ Tick

SpecProfile == Init /\ [][NextProfile]_vars

-----------------------------------------------------------------------------
(* SpecReg: concurrent /register requests.  registerUser's transaction      *)
(* (lines 80-127) is taken apart at its awaits: the read of findOne, the    *)
(* insert of save (with the 201 response written right after it, still      *)
(* inside the callback) and the commit.  The store is MongoDB under         *)
(* snapshot isolation with the unique indexes of UserModel lines 147-161:   *)
(* an insert whose key is held by a document committed since the snapshot,  *)
(* or by another transaction's uncommitted insert, fails with a write       *)
(* conflict, and session.withTransaction runs the callback again.           *)

\* the emailOrPhone values of the requests of SpecReg
RawIdsReg == {"a@x.co", "A@x.co", "555"}

Slots == 1..MaxReq

\* mutant: no unique index, so an insert never conflicts
WriteConflict_None(us, rg, r) == FALSE

\* the insert of slot r meets a committed or an uncommitted document with
\* its index key
WriteConflict(us, rg, r) ==
    \/ FindByContact(us, rg[r].emailOrPhone) # {}
    \/ \E q \in Pending(rg) \ {r} :
          IndexKey(rg[q].emailOrPhone) = IndexKey(rg[r].emailOrPhone)

Call(pc, emailOrPhone, password, status, msg) ==
    [pc |-> pc, emailOrPhone |-> emailOrPhone, status |-> status, msg |-> msg,
     id |-> NoId, doc |-> NewUser(emailOrPhone, password), retried |-> FALSE,
     failed |-> FALSE]

\* res.status(status).json(...) of call c: a response is sent once; on a
\* response already sent the call throws and the response stays as it is
Answered(c, status, msg) ==
    IF c.status # 0 THEN c ELSE [c EXCEPT !.status = status, !.msg = msg]

\* a request arrives: otpRateLimit, validateRegister, then startSession
RegArrive(r, emailOrPhone, password, confirmPassword) ==
    /\ r = Cardinality(DOMAIN reg) + 1
    /\ OtpGate("register", emailOrPhone)
    /\ reg' = Insert(reg, r,
          IF ~OtpGatePass(emailOrPhone)
          THEN Call("done", emailOrPhone, password, 429, OtpLimitMsg)
          ELSE IF password # confirmPassword
          THEN Call("done", emailOrPhone, password, 400, "Validation failed")
          ELSE Call("find", emailOrPhone, password, 0, "none"))
    /\ UNCHANGED <<now, users, nextId, tokens, resp, consumed>>

\* lines 82-90: findOne on the transaction's snapshot
RegFind(r) ==
    /\ r \in DOMAIN reg
    /\ reg[r].pc = "find"
    /\ reg' = [reg EXCEPT ![r] =
          IF FindByContact(users, reg[r].emailOrPhone) # {}
          THEN [Answered(reg[r], 400, AlreadyExists(reg[r].emailOrPhone))
                   EXCEPT !.pc = "done"]
          ELSE [reg[r] EXCEPT !.pc = "save"]]
    /\ UNCHANGED <<now, users, nextId, store, tokens, resp, otpLog, consumed>>

\* lines 105-126: generateOTP, save, and the 201 response.  In a callback
\* that runs again after its response was sent, res.status throws after the
\* save: the transaction is aborted and the error goes to next(error).
RegSave(r, otp) ==
    /\ r \in DOMAIN reg
    /\ reg[r].pc = "save"
    /\ IF WriteConflict(users, reg, r)
       THEN /\ reg' = [reg EXCEPT ![r].pc = "find", ![r].retried = TRUE]
            /\ nextId' = nextId
       ELSE IF reg[r].status # 0
       THEN /\ reg' = [reg EXCEPT ![r].pc = "done"]
            /\ nextId' = nextId + 1
       ELSE /\ reg' = [reg EXCEPT ![r] =
                  [reg[r] EXCEPT !.pc = "commit", !.status = 201,
                                 !.msg = Registered(reg[r].emailOrPhone),
                                 !.id = nextId,
                                 !.doc = generateOTP(reg[r].doc, otp, now)]]
            /\ nextId' = nextId + 1
    /\ UNCHANGED <<now, users, store, tokens, resp, otpLog, consumed>>

\* withTransaction commits after the callback has returned
RegCommit(r) ==
    /\ r \in DOMAIN reg
    /\ reg[r].pc = "commit"
    /\ users' = Insert(users, reg[r].id, reg[r].doc)
    /\ reg' = [reg EXCEPT ![r].pc = "done"]
    /\ UNCHANGED <<now, nextId, store, tokens, resp, otpLog, consumed>>

\* the store fails under call r (at findOne, at save or at the commit): the
\* transaction is aborted, its insert is gone.  An error labelled transient
\* makes withTransaction run the callback again; any other error is thrown
\* to the catch block, which hands it to next(error): 500, unless a response
\* was sent before.
RegStoreFailure(r, transient) ==
    /\ r \in DOMAIN reg
    /\ reg[r].pc \in {"find", "save", "commit"}
    /\ Cardinality({q \in DOMAIN reg : reg[q].failed}) < MaxFail
    /\ reg' = [reg EXCEPT ![r] =
          IF transient
          THEN [reg[r] EXCEPT !.pc = "find", !.retried = TRUE, !.failed = TRUE]
          ELSE [Answered(reg[r], 500, "Internal Server Error")
                   EXCEPT !.pc = "done", !.failed = TRUE]]
    /\ UNCHANGED <<now, users, nextId, store, tokens, resp, otpLog, consumed>>

InitReg ==
    /\ now = 0
    /\ users = Empty
    /\ nextId = 1
    /\ store = Empty
    /\ tokens = {}
    /\ resp = NoResp
    /\ reg = Empty
    /\ otpLog = Empty
    /\ consumed = Empty

NextReg ==
    \/ \E r \in Slots, e \in RawIdsReg, p \in Passwords, c \in Secrets :
          RegArrive(r, e, p, c)
    \/ \E r \in Slots : RegFind(r)
    \/ \E r \in Slots, otp \in Codes : RegSave(r, otp)
    \/ \E r \in Slots : RegCommit(r)

SpecReg == InitReg /\ [][NextReg]_vars

\* the emailOrPhone values of the requests of SpecAbort and SpecStart
RawIdsStart == {"a@x.co", "555"}

\* SpecAbort: /register requests with store failures
NextAbort ==
    \/ \E r \in Slots, e \in RawIdsStart, p \in Passwords : RegArrive(r, e, p, p)
    \/ \E r \in Slots : RegFind(r)
    \/ \E r \in Slots, otp \in CodesAuth : RegSave(r, otp)
    \/ \E r \in Slots : RegCommit(r)
    \/ \E r \in Slots, transient \in BOOLEAN : RegStoreFailure(r, transient)

SpecAbort == InitReg /\ [][NextAbort]_vars

-----------------------------------------------------------------------------
(* SpecStart: /register alone, for an email address and a phone number,     *)
(* over time.                                                               *)

NextStart ==
    \/ \E e \in RawIdsStart, p \in Passwords, c \in Secrets, otp \in Codes :
          registerUser(e, p, c, otp)
    \/ Tick

SpecStart == Init /\ [][NextStart]_vars

-----------------------------------------------------------------------------
(* SpecBody: every route that answers, called in any order at one instant.  *)

BodiesBody == {[firstName |-> "Bob"], [otpCode |-> "222222"]}

NextBody ==
    \/ \E e \in RawIds, p \in Passwords, otp \in CodesAuth :
          registerUser(e, p, p, otp)
    \/ \E e \in RawIds, otp \in CodesAuth : verifyOTP(e, otp)
    \/ \E e \in RawIds, otp \in CodesAuth : resendOTP(e, otp)
    \/ \E id \in Ids, n \in Names : completeProfile(id, n, "true")
    \/ \E e \in RawIds, p \in Passwords : loginUser(e, p)
    \/ \E tok \in tokens : getUserProfile(Bearer(tok))
    \/ \E tok \in tokens : getUserProfileSimple(Bearer(tok))
    \/ \E tok \in tokens, b \in BodiesBody : updateUserProfile(Bearer(tok), b)
    \/ \E tok \in tokens : getAllUsers(Bearer(tok))

SpecBody == Init /\ [][NextBody]_vars

-----------------------------------------------------------------------------
(* SpecAdmin: the administrator's routes, called by the administrator and   *)
(* by ordinary users, with any :userId.                                     *)

IdsAdmin == Ids \cup {BadId}

NextAdmin ==
    \/ \E e \in RawIdsStart, p \in Passwords, otp \in CodesAuth :
          registerUser(e, p, p, otp)
    \/ \E e \in RawIdsStart, otp \in CodesAuth : verifyOTP(e, otp)
    \/ \E id \in Ids, n \in Names : completeProfile(id, n, "true")
    \/ \E tok \in tokens : getAllUsers(Bearer(tok))
    \/ \E tok \in tokens, id \in IdsAdmin : deleteUser(Bearer(tok), id)

SpecAdmin == Init /\ [][NextAdmin]_vars

-----------------------------------------------------------------------------
(* SpecRace: concurrent /verify-otp and /resend-otp requests on one         *)
(* identity.  Each handler is taken apart at its awaits: the findOne with   *)
(* the synchronous checks that follow it, and the save.  save() sends the   *)
(* paths the handler modified as one update of the document.                *)

\* a request in flight: what it was sent (verify) or drew (resend), the OTP
\* fields as its findOne read them, and when
Flight(kind, pc, emailOrPhone, otpCode, id, status, msg) ==
    [kind |-> kind, pc |-> pc, emailOrPhone |-> emailOrPhone,
     otpCode |-> otpCode, otpExpires |-> now + OtpTtlMs, id |-> id,
     status |-> status, msg |-> msg, at |-> now,
     seenCode |-> IF id = NoId THEN NoStr ELSE users[id].otpCode,
     seenExpires |-> IF id = NoId THEN NoTime ELSE users[id].otpExpires]

\* verifyOTP lines 154-186: findOne and the checks
VerifyRead(r, emailOrPhone, otpCode) ==
    LET out == VerifyCheck(users, emailOrPhone, otpCode, now)
    IN /\ r = Cardinality(DOMAIN reg) + 1
       /\ r \in Slots
       /\ reg' = Insert(reg, r,
             IF out = "User not found"
             THEN Flight("verify", "done", emailOrPhone, otpCode, NoId, 404, out)
             ELSE IF out # "OTP verified successfully"
             THEN Flight("verify", "done", emailOrPhone, otpCode,
                         Found(users, emailOrPhone), 400, out)
             ELSE Flight("verify", "save", emailOrPhone, otpCode,
                         Found(users, emailOrPhone), 0, "none"))
       /\ UNCHANGED <<now, users, nextId, store, tokens, resp, otpLog, consumed>>

\* mutant: the save goes through only if the document still holds the code
VerifySaved_IfStillStored(us, c) == us[c.id].otpCode = c.otpCode

\* user.save() of line 198: the update is sent whatever the document holds
VerifySaved(us, c) == TRUE

\* verifyOTP lines 188-207: the save and the response
VerifySave(r) ==
    /\ r \in DOMAIN reg
    /\ reg[r].kind = "verify" /\ reg[r].pc = "save"
    /\ IF VerifySaved(users, reg[r])
       THEN /\ users' = [users EXCEPT
                           ![reg[r].id] = Verified(@, reg[r].emailOrPhone)]
            /\ reg' = [reg EXCEPT ![r].pc = "done", ![r].status = 200,
                                  ![r].msg = "OTP verified successfully"]
       ELSE /\ users' = users
            /\ reg' = [reg EXCEPT ![r].pc = "done", ![r].status = 400,
                                  ![r].msg = "Invalid OTP code"]
    /\ UNCHANGED <<now, nextId, store, tokens, resp, otpLog, consumed>>

\* resendOTP behind otpRateLimit, lines 301-319: findOne and generateOTP
ResendRead(r, emailOrPhone, otp) ==
    /\ r = Cardinality(DOMAIN reg) + 1
    /\ r \in Slots
    /\ OtpGate("resend", emailOrPhone)
    /\ reg' = Insert(reg, r,
          IF ~OtpGatePass(emailOrPhone)
          THEN Flight("resend", "done", emailOrPhone, otp, NoId, 429, OtpLimitMsg)
          ELSE IF FindByContact(users, emailOrPhone) = {}
          THEN Flight("resend", "done", emailOrPhone, otp, NoId, 404,
                      "User not found")
          ELSE Flight("resend", "save", emailOrPhone, otp,
                      Found(users, emailOrPhone), 0, "none"))
    /\ UNCHANGED <<now, users, nextId, tokens, resp, consumed>>

\* resendOTP lines 320-335: the save and the response
ResendSave(r) ==
    /\ r \in DOMAIN reg
    /\ reg[r].kind = "resend" /\ reg[r].pc = "save"
    /\ users' = [users EXCEPT ![reg[r].id] =
                    [@ EXCEPT !.otpCode = reg[r].otpCode,
                              !.otpExpires = reg[r].otpExpires]]
    /\ reg' = [reg EXCEPT ![r].pc = "done", ![r].status = 200,
                          ![r].msg = Resent(reg[r].emailOrPhone)]
    /\ UNCHANGED <<now, nextId, store, tokens, resp, otpLog, consumed>>

\* the identity is registered first, with the code that /verify-otp requests
\* present; a resend draws either code
NextRace ==
    \/ \E e \in RawIds, p \in Passwords, otp \in CodesAuth :
          nextId = 1 /\ registerUser(e, p, p, otp)
    \/ \E r \in Slots, e \in RawIds, otp \in CodesAuth : VerifyRead(r, e, otp)
    \/ \E r \in Slots : VerifySave(r)
    \/ \E r \in Slots, e \in RawIds, otp \in Codes : ResendRead(r, e, otp)
    \/ \E r \in Slots : ResendSave(r)
    \/ Tick

SpecRace == Init /\ [][NextRace]_vars

-----------------------------------------------------------------------------
(* SpecUniq: the /register transactions of SpecReg interleaved with         *)
(* PUT /profile requests that set a contact and with the administrator's   *)
(* deletes.  findByIdAndUpdate and findByIdAndDelete are single atomic      *)
(* writes.  A caller of PUT /profile holds a token of its identity (issued  *)
(* by complete-profile or login, which are left out here).                  *)

RawIdsUniq == {"a@x.co", "555"}

\* bodies of PUT /profile that set the email or the phone number
BodiesUniq == {[email |-> "A@x.co"], [phoneNumber |-> "555"]}

NextUniq ==
    \/ \E r \in Slots, e \in RawIdsUniq, p \in Passwords : RegArrive(r, e, p, p)
    \/ \E r \in Slots : RegFind(r)
    \/ \E r \in Slots, otp \in CodesAuth : RegSave(r, otp)
    \/ \E r \in Slots : RegCommit(r)
    \/ \E id \in DOMAIN users \ {AdminId}, b \in BodiesUniq :
          updateUserProfile(Bearer(generateToken(id, now)), b)
    \/ \E id \in DOMAIN users \ {AdminId} :
          deleteUser(Bearer(generateToken(AdminId, now)), id)

SpecUniq == Init /\ [][NextUniq]_vars

-----------------------------------------------------------------------------
(* SpecSecret: the stored password over the life of an identity: the public *)
(* routes, login with the right and a wrong password, and PUT /profile with *)
(* bodies that name the password.                                           *)

\* a string that is no bcrypt hash, stored as sent
Plain(s) == <<"plain", s>>

\* PUT /profile bodies naming password: at the top level, and inside a $set
\* operator as a plain string and as the bcrypt hash of "Xyz789"
BodiesSecret ==
    { [password |-> Plain("Hack3d")],
      ("$set" :> [password |-> Plain("Hack3d")]),
      ("$set" :> [password |-> Hash("Xyz789")]) }

NextSecret ==
    \/ \E e \in RawIds, p \in Passwords, otp \in CodesAuth :
          registerUser(e, p, p, otp)
    \/ \E e \in RawIds, otp \in CodesAuth : verifyOTP(e, otp)
    \/ \E e \in RawIds, otp \in CodesAuth : resendOTP(e, otp)
    \/ \E id \in Ids, n \in Names : completeProfile(id, n, "true")
    \/ \E e \in RawIds, p \in Secrets : loginUser(e, p)
    \/ \E tok \in UserTokens, b \in BodiesSecret :
          updateUserProfile(Bearer(tok), b)
    \/ Tick

SpecSecret == Init /\ [][NextSecret]_vars

-----------------------------------------------------------------------------
(* SpecFree: identities that come and go: the public routes and the         *)
(* administrator's DELETE, with tokens kept by their holders.               *)

NextFree ==
    \/ \E e \in RawIds, p \in Passwords, otp \in Codes :
          registerUser(e, p, p, otp)
    \/ \E e \in RawIds, otp \in Codes : verifyOTP(e, otp)
    \/ \E e \in RawIds, otp \in Codes : resendOTP(e, otp)
    \/ \E id \in Ids, n \in Names : completeProfile(id, n, "true")
    \/ \E e \in RawIds, p \in Secrets : loginUser(e, p)
    \/ \E tok \in tokens, id \in Ids : deleteUser(Bearer(tok), id)
    \/ Tick

SpecFree == Init /\ [][NextFree]_vars

-----------------------------------------------------------------------------
(* Claims about registration (SpecReg) *)

Keys == {IndexKey(e) : e \in RawIdsReg}

\* the calls for index key k that reached registerUser: admitted by
\* otpRateLimit and with a matching confirmation
Reached(k) ==
    {r \in DOMAIN reg : /\ IndexKey(reg[r].emailOrPhone) = k
                        /\ reg[r].status # 429
                        /\ reg[r].msg # "Validation failed"}

Succeeded(k) == {r \in Reached(k) : reg[r].status = 201}

DocsOf(k) ==
    UNION {FindByContact(users, e) : e \in {x \in RawIdsReg : IndexKey(x) = k}}

\* C1: among the registerUser calls for one identifier, sequential or
\* concurrent, at most one is answered 201; every other call that completes
\* is answered 400 "... already exists", which only happens once one has
\* succeeded; and the collection holds one document per committed success,
\* so a failed call creates nothing.
C1_ExactlyOneRegistered ==
    \A k \in Keys :
        /\ Cardinality(Succeeded(k)) <= 1
        /\ \A r \in Reached(k) :
              reg[r].pc = "done" /\ reg[r].status # 201 =>
                  /\ reg[r].status = 400
                  /\ reg[r].msg = AlreadyExists(reg[r].emailOrPhone)
                  /\ Succeeded(k) # {}
        /\ Cardinality(DocsOf(k)) =
              Cardinality({r \in Succeeded(k) : reg[r].pc = "done"})

\* C1 witness: two calls for the same address in different letter case ran
\* concurrently; one committed, the other met its uncommitted insert, ran
\* again and was answered "already exists".
C1_Witness ==
    \E r, q \in DOMAIN reg :
        /\ reg[r].emailOrPhone # reg[q].emailOrPhone
        /\ IndexKey(reg[r].emailOrPhone) = IndexKey(reg[q].emailOrPhone)
        /\ reg[r].pc = "done" /\ reg[r].status = 201
        /\ reg[q].pc = "done" /\ reg[q].status = 400 /\ reg[q].retried
        /\ Cardinality(DocsOf(IndexKey(reg[r].emailOrPhone))) = 1

\* C21 (as claimed): a registerUser call that has ended was answered 201
\* exactly when the document it made is in the collection, so an aborted
\* transaction leaves no document and its caller has no 201.
C21_CreatedIffCommitted ==
    \A r \in DOMAIN reg :
        reg[r].pc = "done" =>
            (reg[r].status = 201 <=> reg[r].id \in DOMAIN users)

\* the document a successful registerUser(emailOrPhone, password) stores at
\* time t with code otp, as C22 describes it
PendingDoc(emailOrPhone, password, otp, t) ==
    [email |-> IF isEmail(emailOrPhone) THEN Lowercase(emailOrPhone) ELSE NoStr,
     phoneNumber |-> IF isEmail(emailOrPhone) THEN NoStr ELSE emailOrPhone,
     password |-> Hash(password),
     firstName |-> NoStr,
     isVerified |-> FALSE, isPhoneVerified |-> FALSE, isEmailVerified |-> FALSE,
     otpCode |-> otp, otpExpires |-> t + 600000,
     role |-> "user",
     termsAccepted |-> FALSE, termsAcceptedAt |-> NoTime]

\* C22: a /register request that reaches registerUser and is answered 201
\* adds exactly one document, the pending one of its classified channel
\* with the code and expiry = now + 10 minutes, and leaves the others; with
\* password # confirmPassword it is answered 400 and adds nothing.
C22_PendingCreated ==
    [][ resp'.op = "register" =>
          \A e \in RawIdsStart, p \in Passwords, c \in Secrets, otp \in Codes :
              registerUser(e, p, c, otp) /\ OtpGatePass(e) =>
                  /\ p # c => /\ resp'.status = 400
                              /\ users' = users /\ nextId' = nextId
                  /\ resp'.status = 201 =>
                        /\ p = c
                        /\ resp'.userId \notin DOMAIN users
                        /\ users' = Insert(users, resp'.userId,
                                           PendingDoc(e, p, otp, now))
                  /\ resp'.status # 201 => users' = users
      ]_vars

\* C22 witness: a phone number was registered after the clock had moved,
\* next to an email address registered before.
C22_Witness ==
    /\ resp.op = "register" /\ resp.status = 201 /\ now > 0
    /\ resp.userId \in DOMAIN users
    /\ users[resp.userId].phoneNumber = "555"
    /\ users[resp.userId].email = NoStr
    /\ users[resp.userId].otpExpires = now + 600000
    /\ \E i \in DOMAIN users : users[i].email = "a@x.co" /\ users[i].otpExpires < now

-----------------------------------------------------------------------------
(* Claims about the identity state machine (Spec) *)

\* C2: verifyOTP on an existing identity answers 200 exactly when the
\* identity holds a stored code, the supplied code equals it and
\* now <= otpExpires (the expiry instant included); otherwise it answers 400
\* and leaves the collection as it was.
C2_VerifyIff ==
    [][ \A e \in RawIds, c \in Codes :
          verifyOTP(e, c) /\ FindByContact(users, e) # {} =>
              LET u == users[Found(users, e)]
              IN IF /\ u.otpCode # NoStr
                    /\ c = u.otpCode
                    /\ u.otpExpires # NoTime
                    /\ now <= u.otpExpires
                 THEN resp'.status = 200
                 ELSE resp'.status = 400 /\ users' = users
      ]_vars

\* C2 witness: a code accepted at its expiry instant.  The limiter entry
\* shows one code-issuing request, made at time 0; nextId shows that one
\* identity was ever registered, and no client holds a token for it, so the
\* code consumed at now = OtpTtlMs is the one issued at 0.
C2_AcceptedAtExpiry ==
    /\ resp.op = "verify" /\ resp.status = 200
    /\ now = OtpTtlMs
    /\ nextId = 2
    /\ UserTokens = {}
    /\ \E e \in RawIds :
         /\ OtpKey(e) \in DOMAIN store
         /\ store[OtpKey(e)] = [count |-> 1, resetTime |-> OtpWindowMs]

\* C3 (as claimed): after a successful resend, the code that was valid before
\* it fails verification.
C3_OldCodeFails ==
    [][ \A e \in RawIds, otp \in Codes :
          resendOTP(e, otp) /\ resp'.status = 200 =>
              LET u == users[Found(users, e)]
              IN u.otpCode # NoStr /\ ~OtpExpired(u, now) =>
                    VerifyCheck(users', e, u.otpCode, now)
                        # "OTP verified successfully"
      ]_vars

\* C4 (as claimed): a code consumed by a successful verification is answered
\* 400 "Invalid OTP code" whenever it is presented again before /resend-otp
\* has issued the identity a new code.
C4_ConsumedCodeFails ==
    [][ \A e \in RawIds, c \in Codes :
          /\ verifyOTP(e, c)
          /\ FindByContact(users, e) # {}
          /\ Found(users, e) \in DOMAIN consumed
          /\ consumed[Found(users, e)] = c
          => resp' = Resp("verify", 400, "Invalid OTP code")
      ]_vars

\* C5 (as claimed): login with a wrong secret for a known identifier is
\* answered exactly as login for an unknown identifier.
C5_SameLoginError ==
    [][ \A e \in RawIds, p \in Secrets :
          /\ loginUser(e, p)
          /\ FindByContact(users, e) # {}
          /\ ~comparePassword(p, users[Found(users, e)].password)
          => resp' = Resp("login", 401, LoginCheck(Empty, e, p))
      ]_vars

\* C6: login answers 200 with a token exactly when an identity matches the
\* identifier, the secret verifies against its hash and isVerified is true;
\* otherwise it answers 401 and no token is issued.
C6_LoginIff ==
    [][ \A e \in RawIds, p \in Secrets :
          loginUser(e, p) =>
              IF /\ FindByContact(users, e) # {}
                 /\ comparePassword(p, users[Found(users, e)].password)
                 /\ users[Found(users, e)].isVerified
              THEN /\ resp'.status = 200
                   /\ resp'.token = generateToken(Found(users, e), now)
                   /\ resp'.token # NoToken
              ELSE /\ resp'.status = 401
                   /\ resp'.token = NoToken
                   /\ tokens' = tokens
      ]_vars

\* C6 witness: a login answered 200 with the token of an Active identity.
C6_Witness ==
    /\ resp.op = "login" /\ resp.status = 200
    /\ resp.token.userId \in DOMAIN users
    /\ users[resp.token.userId].isVerified
    /\ users[resp.token.userId].role = "user"

\* C7 (as claimed): an Active identity has at least one verified channel.
C7_ActiveHasChannel ==
    \A id \in DOMAIN users :
        users[id].isVerified =>
            users[id].isEmailVerified \/ users[id].isPhoneVerified

-----------------------------------------------------------------------------
(* Claims about the rate limiter *)

GeneralRejected(r) == r.status = 429 /\ r.msg = GeneralLimitMsg
OtpRejected(r) == r.status = 429 /\ r.msg = OtpLimitMsg

\* one gated call on key: what the window budget of max calls per windowMs
\* requires of the entry and of the outcome
BudgetStep(key, windowMs, max, rejected) ==
    IF key \in DOMAIN store /\ now <= store[key].resetTime
    THEN /\ store'[key].resetTime = store[key].resetTime
         /\ store'[key].count = store[key].count + 1
         /\ rejected <=> store[key].count >= max
    ELSE /\ store'[key] = [count |-> 1, resetTime |-> now + windowMs]
         /\ ~rejected

\* C8: for each key, the first max gated calls of a window are allowed, every
\* further call while now <= windowResetAt is rejected with 429, and the
\* first call with now > windowResetAt opens a new window with count 1 and
\* is allowed.
C8_WindowBudget ==
    [][ \A route \in Routes, ip \in Addrs, e \in RawIdsRL :
            Gated(route, ip, e) =>
                /\ BudgetStep(IpKey(ip), GeneralWindowMs, GeneralMax,
                              GeneralRejected(resp'))
                /\ HasOtpLimit(route) /\ ~GeneralRejected(resp') =>
                       BudgetStep(OtpKey(e), OtpWindowMs, OtpMax,
                                  OtpRejected(resp'))
      ]_vars

\* C8 witness: a window that opened after an earlier one had elapsed has
\* taken its max calls and the call after them is rejected.
C8_Witness ==
    /\ GeneralRejected(resp)
    /\ \E ip \in Addrs :
         /\ IpKey(ip) \in DOMAIN store
         /\ store[IpKey(ip)].count = GeneralMax + 1
         /\ store[IpKey(ip)].resetTime > 2 * GeneralWindowMs

\* C9 (as claimed): every rejection carries a retryAfter strictly above 0.
C9_RetryAfterPositive == resp.status = 429 => resp.retryAfter > 0

\* C9 witness of the failing case: a rejection at now = resetTime.
C9_RejectedAtReset ==
    /\ resp.status = 429
    /\ \E k \in DOMAIN store : store[k].resetTime = now /\ resp.retryAfter = 0

Entry(st, key) == IF key \in DOMAIN st THEN st[key] ELSE [count |-> 0, resetTime |-> NoTime]

\* C11: the two policies keep independent counters in the one table.  Every
\* request counts on the caller address's entry first, by exactly one call;
\* the identifier's entry is touched only by a route with otpRateLimit whose
\* request generalRateLimit let through; no other entry is created, changed
\* or removed; and each policy rejects on its own entry alone.
C11_IndependentCounters ==
    [][ \A route \in Routes, ip \in Addrs, e \in RawIdsRL :
          Gated(route, ip, e) =>
              LET gkey == IpKey(ip)
                  okey == OtpKey(e)
                  reachesOtp == HasOtpLimit(route) /\ ~GeneralRejected(resp')
              IN /\ gkey \in DOMAIN store'
                 /\ store'[gkey].count =
                        IF Entry(store, gkey).count = 0 \/ store[gkey].resetTime < now
                        THEN 1 ELSE store[gkey].count + 1
                 /\ GeneralRejected(resp') <=> store'[gkey].count > GeneralMax
                 /\ OtpRejected(resp') <=>
                        reachesOtp /\ store'[okey].count > OtpMax
                 /\ ~reachesOtp => Entry(store', okey) = Entry(store, okey)
                 /\ \A k \in (DOMAIN store \cup DOMAIN store') \ {gkey, okey} :
                        Entry(store', k) = Entry(store, k)
      ]_vars

\* C11 witness: the caller address is over the general limit on an OTP route
\* while the identifier's OTP entry is within its budget.
C11_Witness ==
    /\ GeneralRejected(resp) /\ resp.op = "resend"
    /\ \E e \in RawIdsRL, ip \in Addrs :
         /\ OtpKey(e) \in DOMAIN store
         /\ store[OtpKey(e)].count <= OtpMax
         /\ store[OtpKey(e)].resetTime >= now
         /\ IpKey(ip) \in DOMAIN store
         /\ store[IpKey(ip)].count > GeneralMax

-----------------------------------------------------------------------------
(* Claims about the token gate (SpecAuth) *)

\* the step is a request with header h to one of the routes behind
\* authMiddleware (the exchange it leaves records the header, so the step
\* of header h is looked up at h == resp'.auth)
Protected(h) ==
    \/ resp'.op = "profile" /\ getUserProfile(h)
    \/ resp'.op = "update" /\ \E b \in BodiesAuth : updateUserProfile(h, b)
    \/ resp'.op = "list" /\ getAllUsers(h)
    \/ resp'.op = "delete" /\ \E id \in Ids : deleteUser(h, id)

\* h carries a token signed with the secret
WellSigned(h) == h.scheme = "Bearer" /\ h.token.key = JwtSecret

\* the clock, in seconds, has reached the token's exp
Expired(h) == (now \div 1000) >= h.token.exp

GateMessages ==
    { "Access denied. No valid token provided.", "Access denied. Invalid token.",
      "Access denied. Token expired.", "Access denied. User not found." }

\* C12 (as claimed): a well-signed but expired token is answered 401 with
\* the token-expired message.
C12_ExpiredMessage ==
    [][ LET h == resp'.auth IN
          WellSigned(h) /\ Expired(h) /\ Protected(h) =>
              resp'.status = 401 /\ resp'.msg = "Access denied. Token expired."
      ]_vars

\* C13: the handler of a protected route runs exactly when the header is
\* "Bearer <token>", the token is well signed and unexpired, and its subject
\* is in the collection; otherwise the gate answers 401 with one of its own
\* messages and nothing but the response changes.
C13_HandlerBehindGate ==
    [][ LET h == resp'.auth IN
          Protected(h) =>
              IF WellSigned(h) /\ ~Expired(h) /\ h.token.userId \in DOMAIN users
              THEN /\ resp'.msg \notin GateMessages
                   /\ resp'.reqUser = h.token.userId
              ELSE /\ resp'.status = 401
                   /\ resp'.msg \in GateMessages
                   /\ UNCHANGED <<now, users, nextId, store, tokens, reg,
                                  otpLog, consumed>>
      ]_vars

\* C13 witness: an expired token of an existing identity was turned away.
C13_Witness ==
    /\ resp.status = 401 /\ resp.msg = "Access denied. Invalid token."
    /\ resp.op = "update"
    /\ \E tok \in tokens :
         /\ tok.userId \in DOMAIN users /\ tok.userId # AdminId
         /\ (now \div 1000) >= tok.exp

\* C14 (as claimed): a token issued for identity U, unexpired and with U in
\* the collection, passes the gate of GET /profile and resolves to U.
C14_IssuedTokenAccepted ==
    [][ LET h == resp'.auth IN
          /\ h.scheme = "Bearer" /\ h.token \in tokens
          /\ ~Expired(h)
          /\ h.token.userId \in DOMAIN users
          /\ getUserProfile(h) \/ getUserProfileSimple(h)
          => resp'.status = 200 /\ resp'.reqUser = h.token.userId
      ]_vars

\* C15: once an identity is deleted, a protected request with an unexpired
\* token issued for it is answered 401 "Access denied. User not found.".
C15_DeletedUserToken ==
    [][ LET h == resp'.auth IN
          /\ h.scheme = "Bearer" /\ h.token \in tokens
          /\ ~Expired(h)
          /\ h.token.userId \notin DOMAIN users
          /\ Protected(h)
          => resp'.status = 401 /\ resp'.msg = "Access denied. User not found."
      ]_vars

\* C15 witness: the token of a deleted identity was refused.
C15_Witness ==
    /\ resp.status = 401 /\ resp.msg = "Access denied. User not found."
    /\ \E tok \in tokens :
         tok.userId \notin DOMAIN users /\ (now \div 1000) < tok.exp

\* C16: the gate writes nothing.  A request it rejects changes the response
\* only and has no identity attached; a request it lets through has the
\* token's identity attached, and the read-only handlers behind it leave the
\* collection as it was.
C16_GateReadOnly ==
    [][ LET h == resp'.auth IN
          Protected(h) =>
              /\ resp'.msg \in GateMessages =>
                    /\ resp'.reqUser = NoId
                    /\ UNCHANGED <<now, users, nextId, store, tokens, reg,
                                   otpLog, consumed>>
              /\ resp'.msg \notin GateMessages =>
                    /\ resp'.reqUser = h.token.userId
                    /\ resp'.reqUser \in DOMAIN users
              /\ resp'.op \in {"profile", "list"} => users' = users
      ]_vars

\* C16 witness: a rejection of a token whose identity is gone, with nothing
\* attached.
C16_Witness ==
    /\ resp.msg = "Access denied. User not found." /\ resp.reqUser = NoId
    /\ resp.op = "profile"
    /\ \E tok \in tokens : tok.userId \notin DOMAIN users

-----------------------------------------------------------------------------
(* Claims about the profile routes (SpecProfile) *)

\* the step is a PUT /profile request
ProfileUpdate == \E b \in BodiesProfile : updateUserProfile(resp'.auth, b)

\* C17 (as claimed): no PUT /profile request changes the role or the
\* isVerified flag of any identity, whatever its body.
C17_RoleAndVerifiedKept ==
    [][ ProfileUpdate =>
          \A id \in DOMAIN users :
              /\ users'[id].role = users[id].role
              /\ users'[id].isVerified = users[id].isVerified
      ]_vars

\* C18 (as claimed): a complete-profile request whose termsAccepted is not
\* true is answered 400, for every id, with no token and no change to the
\* collection.
C18_TermsRequired ==
    [][ \A id \in Ids, n \in Names, t \in TermsValues \ {"true"} :
          completeProfile(id, n, t) =>
              /\ resp'.status = 400
              /\ resp'.token = NoToken
              /\ users' = users /\ tokens' = tokens
      ]_vars

\* C19 (as claimed): termsAcceptedAt is set at the step that turns
\* termsAccepted true, to the time of that step, and never changes once set.
C19_TermsAcceptedAtOnce ==
    [][ \A id \in DOMAIN users \cap DOMAIN users' :
          /\ users[id].termsAcceptedAt # NoTime =>
                users'[id].termsAcceptedAt = users[id].termsAcceptedAt
          /\ ~users[id].termsAccepted /\ users'[id].termsAccepted =>
                users'[id].termsAcceptedAt = now
          /\ users[id].termsAcceptedAt = NoTime /\ ~users'[id].termsAccepted =>
                users'[id].termsAcceptedAt = NoTime
      ]_vars

-----------------------------------------------------------------------------
(* Claims about the unique indexes (SpecUniq) *)

\* C20: no two documents hold the same email and no two the same phone
\* number; documents without an email, or without a phone number, do not
\* collide.
C20_UniqueContacts ==
    \A i, j \in DOMAIN users :
        i # j =>
            /\ users[i].email # NoStr => users[i].email # users[j].email
            /\ users[i].phoneNumber # NoStr =>
                  users[i].phoneNumber # users[j].phoneNumber

\* C20 witness: an update to a held email was refused while two documents
\* have no email, and a registered document was deleted before.
C20_Witness ==
    /\ resp.op = "update" /\ resp.status = 500
    /\ \E i, j \in DOMAIN users : i # j /\ users[i].email = NoStr
                                        /\ users[j].email = NoStr
    /\ \E i \in DOMAIN users : users[i].email = "a@x.co"
    /\ Cardinality(DOMAIN users) < nextId

-----------------------------------------------------------------------------
(* Claims about the response bodies (SpecBody) *)

\* C23: no response carries the password hash, the OTP code or its expiry:
\* the answers of /register, /verify-otp and /resend-otp hold no user
\* document and no code, and the user documents in every other answer are
\* without the paths password, otpCode and otpExpires.
C23_NoSecretInResponse ==
    /\ resp.fields \cap {"password", "otpCode", "otpExpires"} = {}
    /\ resp.op \in {"register", "verify", "resend"} => resp.fields = {}
    /\ resp.msg \notin Codes

\* C23 witness: the administrator's listing was answered while a listed
\* document holds a password hash and a code, and it shows other paths.
C23_Witness ==
    /\ resp.op = "list" /\ resp.status = 200
    /\ "email" \in resp.fields
    /\ \E i \in DOMAIN users : /\ users[i].otpCode # NoStr
                               /\ users[i].password = Hash("Abc123")
                               /\ users[i].isVerified

-----------------------------------------------------------------------------
(* Claims about the administrator's routes (SpecAdmin) *)

\* C24 (as claimed): the listing and DELETE /:userId, called by an
\* authenticated identity that is no administrator, answer 403 and change
\* nothing; DELETE called by an administrator removes the document of
\* userId, or answers 404 and changes nothing when there is none.
C24_AdminOnly ==
    [][ resp'.op \in {"list", "delete"} /\ resp'.msg \notin GateMessages =>
          \A id \in IdsAdmin :
              getAllUsers(resp'.auth) \/ deleteUser(resp'.auth, id) =>
                  IF RoleOf(users, resp'.reqUser) # "admin"
                  THEN resp'.status = 403 /\ users' = users
                  ELSE IF resp'.op = "list"
                  THEN resp'.status = 200 /\ users' = users
                  ELSE IF id \in DOMAIN users
                  THEN /\ resp'.status = 200
                       /\ users' = Remove(users, id)
                  ELSE resp'.status = 404 /\ users' = users
      ]_vars

-----------------------------------------------------------------------------
(* Claims about concurrent requests on one identity (SpecRace) *)

VerifyCalls == {r \in DOMAIN reg : reg[r].kind = "verify"}
ResendCalls == {r \in DOMAIN reg : reg[r].kind = "resend"}

\* the code and expiry call r read pass the checks of verifyOTP
ReadValid(r) ==
    /\ reg[r].id # NoId
    /\ reg[r].seenCode # NoStr /\ reg[r].seenCode = reg[r].otpCode
    /\ reg[r].seenExpires # NoTime /\ reg[r].seenExpires >= reg[r].at

\* C25: a /verify-otp request is answered by what its findOne read, not by
\* what the document holds when it saves: it ends with 200 exactly when the
\* code it read matched and was not expired, so two requests that both read
\* the code before either cleared it both succeed.
C25_VerifyDecidedAtRead ==
    \A r \in VerifyCalls :
        reg[r].pc = "done" => (reg[r].status = 200 <=> ReadValid(r))

\* C25 witness: one code was issued and never reissued, and two requests
\* presenting it were both answered 200.
C25_Witness ==
    /\ ResendCalls = {}
    /\ nextId = 2
    /\ \E r, q \in VerifyCalls :
          /\ r # q
          /\ reg[r].otpCode = reg[q].otpCode /\ reg[r].id = reg[q].id
          /\ reg[r].pc = "done" /\ reg[r].status = 200
          /\ reg[q].pc = "done" /\ reg[q].status = 200
    /\ \A i \in DOMAIN users : users[i].otpCode = NoStr

\* C26 (as claimed): when a /resend-otp request saves after another one on
\* the same identity has, the stored code and expiry are both the saving
\* request's, its code passes the code test of /verify-otp (and is accepted
\* until it expires), and the other request's code is refused.
C26_LastResendWins ==
    [][ \A r, q \in ResendCalls :
          /\ r # q /\ reg[r].pc = "save"
          /\ reg[q].pc = "done" /\ reg[q].status = 200
          /\ reg[q].id = reg[r].id
          /\ ResendSave(r)
          => /\ users'[reg[r].id].otpCode = reg[r].otpCode
             /\ users'[reg[r].id].otpExpires = reg[r].otpExpires
             /\ VerifyCheck(users', reg[r].emailOrPhone, reg[r].otpCode, now) =
                   IF now <= reg[r].otpExpires THEN "OTP verified successfully"
                   ELSE "OTP has expired"
             /\ VerifyCheck(users', reg[q].emailOrPhone, reg[q].otpCode, now) =
                   "Invalid OTP code"
      ]_vars

-----------------------------------------------------------------------------
(* Further claims about the identity state machine (Spec, SpecProfile) *)

\* C27 (as claimed): an identity holds a code exactly when it holds an
\* expiry, and it holds neither while the code of its last successful
\* verification has not been followed by a new issuance.
C27_OtpOnlyWhilePending ==
    \A id \in DOMAIN users :
        /\ users[id].otpCode = NoStr <=> users[id].otpExpires = NoTime
        /\ id \in DOMAIN consumed =>
              users[id].otpCode = NoStr /\ users[id].otpExpires = NoTime

\* C28 (as claimed): a complete-profile request for an identity that is
\* already Active is refused, changes no document and issues no token.
C28_CompleteOnlyFromVerified ==
    [][ resp'.op = "complete" =>
          \A id \in DOMAIN users, n \in Names, t \in {"true", "false"} :
              users[id].isVerified /\ completeProfile(id, n, t) =>
                  /\ resp'.status # 200
                  /\ resp'.token = NoToken
                  /\ users' = users /\ tokens' = tokens
      ]_vars

\* C29 (as claimed): PUT /profile changes documents of Active identities
\* only; a token is issued for an identity that is Active; and an Active
\* identity stays Active while it exists.
C29_UpdateOnlyActive ==
    [][ /\ ProfileUpdate /\ users' # users => users[resp'.reqUser].isVerified
        /\ resp'.token # NoToken /\ resp'.token # resp.token =>
              /\ resp'.op \in {"complete", "login"}
              /\ users'[resp'.token.userId].isVerified
        /\ \A id \in DOMAIN users \cap DOMAIN users' :
              users[id].isVerified => users'[id].isVerified
      ]_vars

\* C30: /verify-otp answers 404 for an unknown identifier; otherwise
\* "Invalid OTP code" when no code is stored or the code differs, expired
\* or not; "OTP has expired" only when the code matches and now is past the
\* expiry, and then the document, code included, stays as it is; else 200.
C30_VerifyErrorOrder ==
    [][ resp'.op = "verify" =>
          \A e \in RawIds, otp \in Codes :
              verifyOTP(e, otp) =>
                  IF FindByContact(users, e) = {}
                  THEN resp'.status = 404 /\ users' = users
                  ELSE LET u == users[Found(users, e)]
                       IN IF u.otpCode = NoStr \/ u.otpCode # otp
                          THEN /\ resp'.status = 400
                               /\ resp'.msg = "Invalid OTP code"
                               /\ users' = users
                          ELSE IF now > u.otpExpires
                          THEN /\ resp'.status = 400
                               /\ resp'.msg = "OTP has expired"
                               /\ users' = users
                          ELSE resp'.status = 200
      ]_vars

\* C30 witness: a wrong code was refused as invalid while the stored code
\* was past its expiry.
C30_Witness ==
    /\ resp.op = "verify" /\ resp.msg = "Invalid OTP code"
    /\ \E id \in DOMAIN users :
          /\ users[id].otpCode # NoStr
          /\ users[id].otpExpires # NoTime /\ users[id].otpExpires < now

\* C31: a /verify-otp answered 200 changes, in the one document found for
\* the identifier, the verified flag of the identifier's channel (set) and
\* otpCode and otpExpires (cleared), and nothing else in the collection.
C31_VerifyFrame ==
    [][ resp'.op = "verify" /\ resp'.status = 200 /\ users' # users =>
          \A e \in RawIds, otp \in Codes :
              verifyOTP(e, otp) =>
                  LET id   == Found(users, e)
                      flag == IF isEmail(e) THEN "isEmailVerified"
                              ELSE "isPhoneVerified"
                  IN /\ DOMAIN users' = DOMAIN users
                     /\ \A i \in DOMAIN users \ {id} : users'[i] = users[i]
                     /\ users'[id][flag]
                     /\ users'[id].otpCode = NoStr
                     /\ users'[id].otpExpires = NoTime
                     /\ \A f \in Paths \ {flag, "otpCode", "otpExpires"} :
                           users'[id][f] = users[id][f]
      ]_vars

\* C31 witness: an identity that was Active with its terms accepted has
\* verified a re-issued code and still has only its email channel verified.
C31_Witness ==
    /\ resp.op = "verify" /\ resp.status = 200
    /\ \E id \in DOMAIN users \ {AdminId} :
          /\ users[id].isVerified /\ users[id].termsAccepted
          /\ users[id].isEmailVerified /\ ~users[id].isPhoneVerified
          /\ users[id].otpCode = NoStr

\* C32: a request answered with an error (status 400 or above) leaves the
\* collection as it was; after a refused /verify-otp every code is judged,
\* at that instant, as it was judged before, so the stored unexpired code
\* is still accepted.
C32_ErrorsChangeNothing ==
    [][ resp'.status >= 400 =>
          /\ users' = users
          /\ resp'.op = "verify" /\ now' = now =>
                \A e \in RawIds, c \in Codes :
                    VerifyCheck(users', e, c, now) = VerifyCheck(users, e, c, now)
      ]_vars

\* C32 witness: a wrong code was refused and the stored code would still be
\* accepted.
C32_Witness ==
    /\ resp.op = "verify" /\ resp.status = 400 /\ resp.msg = "Invalid OTP code"
    /\ \E e \in RawIds, c \in Codes :
          VerifyCheck(users, e, c, now) = "OTP verified successfully"

\* C33 (as claimed): while an identity exists, none of isEmailVerified,
\* isPhoneVerified and isVerified goes from true to false.
C33_VerifiedForward ==
    [][ \A id \in DOMAIN users \cap DOMAIN users' :
          \A f \in {"isEmailVerified", "isPhoneVerified", "isVerified"} :
              users[id][f] => users'[id][f]
      ]_vars

\* C34: a /register or /resend-otp request that is over the OTP limit of
\* its identifier (the step counts it in the identifier's entry, which is
\* then above the maximum) is answered 429, and a request answered 429 creates no
\* identity and leaves every document as it was, so every code is judged
\* as it was judged before the request.
C34_RejectedNeverReaches ==
    [][ resp'.op \in {"register", "resend"} =>
          /\ resp'.status = 429 => users' = users /\ nextId' = nextId
          /\ \A e \in RawIds :
              /\ store' = OtpGateStore(e)
              /\ OverLimit(OtpGateStore(e), OtpKey(e), OtpMax)
              => /\ resp'.status = 429
                 /\ users' = users /\ nextId' = nextId
                 /\ \A c \in Codes :
                      VerifyCheck(users', e, c, now') = VerifyCheck(users, e, c, now)
      ]_vars

\* C34 witness: a resend was answered 429 while a code issued earlier is
\* stored and would be accepted.
C34_Witness ==
    /\ resp.op = "resend" /\ resp.status = 429
    /\ \E e \in RawIds, c \in Codes :
          VerifyCheck(users, e, c, now) = "OTP verified successfully"

-----------------------------------------------------------------------------
(* Further claims about the rate limiter (SpecRL) *)

\* the table and the answer of the limiter chain for one request at time t,
\* as functions of the table st the request meets (Gated without the
\* counter cap)
ChainStore(st, route, ip, emailOrPhone, t) ==
    LET st1 == Counted(st, IpKey(ip), GeneralWindowMs, t)
    IN IF OverLimit(st1, IpKey(ip), GeneralMax) \/ ~HasOtpLimit(route) THEN st1
       ELSE Counted(st1, OtpKey(emailOrPhone), OtpWindowMs, t)

ChainResp(st, route, ip, emailOrPhone, t) ==
    LET st1 == Counted(st, IpKey(ip), GeneralWindowMs, t)
        st2 == Counted(st1, OtpKey(emailOrPhone), OtpWindowMs, t)
    IN IF OverLimit(st1, IpKey(ip), GeneralMax)
       THEN TooMany(route, st1, IpKey(ip), t, GeneralLimitMsg)
       ELSE IF HasOtpLimit(route) /\ OverLimit(st2, OtpKey(emailOrPhone), OtpMax)
       THEN TooMany(route, st2, OtpKey(emailOrPhone), t, OtpLimitMsg)
       ELSE Resp(route, 0, "next")

\* the entries of st whose window is still running at t
Running(st, t) ==
    [k \in {j \in DOMAIN st : st[j].resetTime >= t} |-> st[k]]

\* st without the entries of the keys in K
Without(st, K) == [k \in DOMAIN st \ K |-> st[k]]

\* C35: the sweep leaves exactly the entries whose window is running; and a
\* table that lacks any of the entries a sweep removes answers every
\* request as the full table does (status, message and retryAfter) and
\* holds the same running entries afterwards, so the two stay in step.
C35_SweepTransparent ==
    /\ Swept(store, now) = Running(store, now)
    /\ \A K \in SUBSET (DOMAIN store \ DOMAIN Swept(store, now)) :
          \A route \in Routes, ip \in Addrs, e \in RawIdsRL :
              /\ ChainResp(Without(store, K), route, ip, e, now)
                    = ChainResp(store, route, ip, e, now)
              /\ Running(ChainStore(Without(store, K), route, ip, e, now), now)
                    = Running(ChainStore(store, route, ip, e, now), now)

\* C35 witness: the identifier's OTP entry was swept after its window, and a
\* later request on a route without the OTP limiter opened a new window for
\* its caller.
C35_Witness ==
    /\ resp.op = "login" /\ resp.msg = "next"
    /\ \E e \in RawIdsRL, ip \in Addrs :
          /\ OtpKey(e) \in DOMAIN otpLog
          /\ OtpKey(e) \notin DOMAIN store
          /\ IpKey(ip) \in DOMAIN store
          /\ store[IpKey(ip)] = [count |-> 1, resetTime |-> now + GeneralWindowMs]

\* C39: a request changes the entries of the limiters it passes and no
\* other: the caller's entry of generalRateLimit and, unless that limiter
\* refused or the route has no otpRateLimit, the identifier's entry.  An
\* entry it passes whose window is running keeps its resetTime and counts
\* one more, whether the request is let through or refused.
C39_WindowFixed ==
    [][ store' # store /\ now' = now =>
          \A route \in Routes, ip \in Addrs, e \in RawIdsRL :
              Gated(route, ip, e) =>
                  LET passed == IF HasOtpLimit(route) /\ resp'.msg # GeneralLimitMsg
                                THEN {IpKey(ip), OtpKey(e)} ELSE {IpKey(ip)}
                  IN /\ DOMAIN store' = DOMAIN store \cup passed
                     /\ \A k \in DOMAIN store \ passed : store'[k] = store[k]
                     /\ \A k \in DOMAIN store \cap passed :
                           store[k].resetTime >= now =>
                              /\ store'[k].resetTime = store[k].resetTime
                              /\ store'[k].count = store[k].count + 1
      ]_vars

\* C39 witness: a request was refused late in the identifier's window, and
\* the entry, counted past the maximum, still ends where the window began.
C39_Witness ==
    /\ resp.status = 429 /\ resp.msg = OtpLimitMsg
    /\ now = OtpWindowMs
    /\ \E e \in RawIdsRL :
          /\ OtpKey(e) \in DOMAIN store
          /\ store[OtpKey(e)] = [count |-> OtpMax + 1, resetTime |-> OtpWindowMs]

-----------------------------------------------------------------------------
(* Claims about the stored password (SpecSecret) *)

\* C36 (as claimed): no request changes the password an identity holds, and
\* a login for an Active identity is answered 200 exactly when the password
\* sent is the one given at registration.
C36_SecretWrittenOnce ==
    [][ /\ \A id \in DOMAIN users \cap DOMAIN users' :
              users'[id].password = users[id].password
        /\ resp'.op = "login" =>
              \A e \in RawIds, p \in Secrets :
                  /\ loginUser(e, p)
                  /\ FindByContact(users, e) # {}
                  /\ users[Found(users, e)].isVerified
                  => (resp'.status = 200 <=> p \in Passwords)
      ]_vars

-----------------------------------------------------------------------------
(* Claims about identities that come and go (SpecFree) *)

\* the first instant from t on at which otpRateLimit lets a request for
\* emailOrPhone through
AdmitTime(st, emailOrPhone, t) ==
    IF ~OverLimit(Counted(st, OtpKey(emailOrPhone), OtpWindowMs, t),
                  OtpKey(emailOrPhone), OtpMax)
    THEN t ELSE st[OtpKey(emailOrPhone)].resetTime + 1

\* the collection with document id replaced by what save() stores for u
Saved(us, id, u, t) == [us EXCEPT ![id] = PreSave(us[id], u, t)]

\* from the collection us and limiter table st at time t: /resend-otp for
\* emailOrPhone at the first instant the limiter admits it, drawing otp;
\* /verify-otp with otp, d later; /complete-profile with termsAccepted true;
\* /login with password p.  TRUE when each is answered with success and the
\* identity ends Active.
Recovers(us, st, t, id, emailOrPhone, otp, d, n, p) ==
    LET tR  == AdmitTime(st, emailOrPhone, t)
        us1 == Saved(us, id, generateOTP(us[id], otp, tR), tR)
        us2 == Saved(us1, id, Verified(us1[id], emailOrPhone), tR + d)
        us3 == Saved(us2, id, Completed(us2[id], n, "true"), tR + d)
    IN /\ ~OverLimit(Counted(st, OtpKey(emailOrPhone), OtpWindowMs, tR),
                     OtpKey(emailOrPhone), OtpMax)
       /\ Found(us, emailOrPhone) = id
       /\ VerifyCheck(us1, emailOrPhone, otp, tR + d) = "OTP verified successfully"
       /\ TermsValid("true")
       /\ us2[id].isEmailVerified \/ us2[id].isPhoneVerified
       /\ us3[id].isVerified
       /\ LoginCheck(us3, emailOrPhone, p) = "Login successful"

FreedStep(limited) ==
    /\ resp'.op = "delete" /\ resp'.status = 200 /\ now' = now /\ store' = store =>
          \A tok \in tokens, id \in Ids :
              deleteUser(Bearer(tok), id) =>
                  /\ id \notin DOMAIN users'
                  /\ \A e \in RawIds : FindByContact(users, e) = {id} =>
                                          FindByContact(users', e) = {}
    /\ \A e \in RawIds :
          FindByContact(users, e) = {} /\ (limited => resp'.status # 429) =>
              /\ resp'.op = "verify" /\ (\E otp \in Codes : verifyOTP(e, otp))
                    => resp'.status = 404
              /\ resp'.op = "resend" /\ (\E otp \in Codes : resendOTP(e, otp))
                    => resp'.status = 404
              /\ resp'.op = "login" /\ (\E p \in Secrets : loginUser(e, p))
                    => resp'.status = 401 /\ resp'.msg = "Invalid credentials"
              /\ resp'.op = "register" =>
                    \A p \in Passwords, otp \in Codes :
                        registerUser(e, p, p, otp) =>
                            /\ resp'.status = 201
                            /\ resp'.userId \notin DOMAIN users
                            /\ DOMAIN users' = DOMAIN users \cup {resp'.userId}
                            /\ users'[resp'.userId] = PendingDoc(e, p, otp, now)
                            /\ \A tok \in tokens : tok.userId # resp'.userId

\* C38 (as claimed): deletion frees the identifier, and the requests for
\* it are answered as for an unknown identifier, a new registration with 201.
C38_DeletionFreesAlways == [][FreedStep(FALSE)]_vars

\* C38 (amended): the same for the requests that otpRateLimit lets through.
C38_DeletionFrees == [][FreedStep(TRUE)]_vars

\* C38 witness: the identifier was registered again under a new id after
\* the first identity, whose token is still held, was deleted.
C38_Witness ==
    /\ resp.op = "register" /\ resp.status = 201
    /\ resp.userId \in DOMAIN users
    /\ \E tok \in tokens :
          /\ tok.userId \notin DOMAIN users
          /\ tok.userId # resp.userId
          /\ AuthCheck(users, Bearer(tok), now) # "next"

====
